---- MODULE Spec2Model ----
(***************************************************************************)
(* PEG stock valuation microservice: lib/valuation.js (the valuation       *)
(* pipeline) and app.js (the HTTP boundary: single and batch endpoints).   *)
(*                                                                         *)
(* JavaScript numbers are modelled as exact rationals extended with NaN,   *)
(* +Infinity and -Infinity; null is a value of its own that arithmetic and *)
(* comparisons coerce to 0, as ToNumber does.  IEEE rounding is not        *)
(* modelled.  Strings that carry data (error texts, warnings) are          *)
(* sequences of text segments, the segments a template literal joins.      *)
(***************************************************************************)
EXTENDS Integers, Sequences, FiniteSets, TLC

(***************************************************************************)
(* Bounds of the model.                                                    *)
(***************************************************************************)
\* largest number of symbols in one batch request
MaxBatch == 2
\* largest number of records in an earnings-estimates payload
MaxEstimates == 2

(***************************************************************************)
(* JavaScript numbers.                                                     *)
(***************************************************************************)
Abs(i) == IF i < 0 THEN -i ELSE i

RECURSIVE GCD(_, _)
GCD(a, b) == IF b = 0 THEN a ELSE GCD(b, a % b)

\* the rational n/d (d # 0) in lowest terms with a positive denominator
Rat(n, d) ==
    LET g == GCD(Abs(n), Abs(d))
        s == IF d < 0 THEN -1 ELSE 1
    IN  [k |-> "num", n |-> (s * n) \div g, d |-> Abs(d) \div g]

Num(i) == [k |-> "num", n |-> i, d |-> 1]
NaN == [k |-> "nan", n |-> 0, d |-> 1]
PosInf == [k |-> "inf", n |-> 1, d |-> 1]
NegInf == [k |-> "inf", n |-> -1, d |-> 1]
Null == [k |-> "null", n |-> 0, d |-> 1]

\* ToNumber: null becomes 0
ToNumber(x) == IF x.k = "null" THEN Num(0) ELSE x

\* Number.isFinite: false for null, NaN and the infinities
IsFinite(x) == x.k = "num"

\* sign of a number that is not NaN
Sgn(x) == IF x.n > 0 THEN 1 ELSE IF x.n < 0 THEN -1 ELSE 0

SignedInf(s) == IF s < 0 THEN NegInf ELSE PosInf

Neg(x0) ==
    LET x == ToNumber(x0)
    IN  IF x.k = "nan" THEN NaN ELSE [x EXCEPT !.n = -x.n]

Add(x0, y0) ==
    LET x == ToNumber(x0)
        y == ToNumber(y0)
    IN  CASE x.k = "nan" \/ y.k = "nan" -> NaN
          [] x.k = "inf" /\ y.k = "inf" -> IF x.n = y.n THEN x ELSE NaN
          [] x.k = "inf" -> x
          [] y.k = "inf" -> y
          [] OTHER -> Rat(x.n * y.d + y.n * x.d, x.d * y.d)

Sub(x, y) == Add(x, Neg(y))

Mul(x0, y0) ==
    LET x == ToNumber(x0)
        y == ToNumber(y0)
    IN  CASE x.k = "nan" \/ y.k = "nan" -> NaN
          [] x.k = "inf" \/ y.k = "inf" ->
                IF Sgn(x) * Sgn(y) = 0 THEN NaN ELSE SignedInf(Sgn(x) * Sgn(y))
          [] OTHER -> Rat(x.n * y.n, x.d * y.d)

\* division; a zero divisor is +0
Div(x0, y0) ==
    LET x == ToNumber(x0)
        y == ToNumber(y0)
    IN  CASE x.k = "nan" \/ y.k = "nan" -> NaN
          [] x.k = "inf" /\ y.k = "inf" -> NaN
          [] x.k = "inf" -> SignedInf(Sgn(x) * (IF Sgn(y) < 0 THEN -1 ELSE 1))
          [] y.k = "inf" -> Num(0)
          [] y.n = 0 -> IF x.n = 0 THEN NaN ELSE SignedInf(Sgn(x))
          [] OTHER -> Rat(x.n * y.d, x.d * y.n)

\* x < 0 in place of x <= 0
LtZeroInPlace(x0) == LET x == ToNumber(x0) IN x.k # "nan" /\ x.n < 0

\* x <= 0, x < 0, x > 0: every comparison with NaN is false
LeZero(x0) == LET x == ToNumber(x0) IN x.k # "nan" /\ x.n <= 0
LtZero(x0) == LET x == ToNumber(x0) IN x.k # "nan" /\ x.n < 0
GtZero(x0) == LET x == ToNumber(x0) IN x.k # "nan" /\ x.n > 0

\* x <= y for finite numbers
LeqFinite(x, y) == x.n * y.d <= y.n * x.d

\* truthiness of a number or null: 0, NaN and null are falsy
TruthyNum(x) == x.k = "inf" \/ (x.k = "num" /\ x.n # 0)

(***************************************************************************)
(* JSON values of the providers' payloads and parseFloat.                  *)
(***************************************************************************)
Undef == [t |-> "undef", v |-> NaN, s |-> ""]
JNull == [t |-> "null", v |-> NaN, s |-> ""]
JNum(n, d) == [t |-> "num", v |-> Rat(n, d), s |-> ""]
JStr(s) == [t |-> "str", v |-> NaN, s |-> s]

\* the number parseFloat reads at the start of each string of the payloads
StringPrefixNumber(s) ==
    CASE s = "6" -> Num(6)
      [] s = "8" -> Num(8)
      [] s = "8x" -> Num(8)
      [] s = "3" -> Num(3)
      [] s = "0" -> Num(0)
      [] s = "-2" -> Num(-2)
      [] s = "1.5" -> Rat(3, 2)
      [] s = "Infinity" -> PosInf
      [] OTHER -> NaN

\* parseFloat(x): a number is itself, a string is its numeric prefix,
\* undefined and null are NaN
ParseFloat(x) ==
    CASE x.t = "num" -> x.v
      [] x.t = "str" -> StringPrefixNumber(x.s)
      [] OTHER -> NaN

\* truthiness of a JSON value
Truthy(x) ==
    CASE x.t = "num" -> TruthyNum(x.v)
      [] x.t = "str" -> x.s # ""
      [] OTHER -> FALSE

(***************************************************************************)
(* Outcomes of one HTTP call.  kind: "neterr" (fetch rejects), "status"    *)
(* (a non-2xx answer), "badjson" (the body is no JSON), "ok" (a JSON body; *)
(* body.obj = FALSE is the JSON value null, whose properties cannot be     *)
(* read).                                                                  *)
(***************************************************************************)
\* the text of the error raised inside the try block of a fetch helper
TransportError(resp) ==
    CASE resp.kind = "neterr" -> <<"fetch failed">>
      [] resp.kind = "status" -> <<"API returned status", resp.status>>
      [] OTHER -> <<"Unexpected token in JSON">>

\* fetchFinnhub: the JSON body, or an error wrapping the transport error
fetchFinnhub(resp) ==
    IF resp.kind = "ok"
    THEN [threw |-> FALSE, message |-> <<>>]
    ELSE [threw |-> TRUE,
          message |-> <<"Finnhub API call failed">> \o TransportError(resp)]

\* fetchAlphaVantage: as fetchFinnhub, and a 200 body with a Note or an
\* Error other than 'None' is an error too
fetchAlphaVantage(resp) ==
    CASE resp.kind # "ok" ->
            [threw |-> TRUE,
             message |-> <<"Alpha Vantage API call failed">> \o TransportError(resp)]
      [] ~resp.body.obj ->
            [threw |-> TRUE,
             message |-> <<"Alpha Vantage API call failed",
                           "Cannot read properties of null">>]
      [] Truthy(resp.body.Note) ->
            [threw |-> TRUE,
             message |-> <<"Alpha Vantage API call failed",
                           "API rate limit exceeded", resp.body.Note.s>>]
      [] Truthy(resp.body.Error) /\ resp.body.Error # JStr("None") ->
            [threw |-> TRUE,
             message |-> <<"Alpha Vantage API call failed", resp.body.Error.s>>]
      [] OTHER -> [threw |-> FALSE, message |-> <<>>]

(***************************************************************************)
(* getStockData, in the stages its awaits cut it into.  sd is the record   *)
(* of its locals: beta, actualEps, estimatedEps, price, pe, warnings.      *)
(***************************************************************************)
StockDataLocals ==
    [beta |-> Null, actualEps |-> Null, estimatedEps |-> Null,
     price |-> Null, pe |-> Null, warnings |-> <<>>]

\* the quote stage: the price, or the error that getStockData throws
QuoteStage(symbol, resp) ==
    LET f == fetchFinnhub(resp)
        price == ParseFloat(resp.body.c)
    IN  CASE f.threw ->
                [threw |-> TRUE, price |-> Null,
                 message |-> <<"Failed to get quote for", symbol>> \o f.message]
          [] ~resp.body.obj ->
                [threw |-> TRUE, price |-> Null,
                 message |-> <<"Failed to get quote for", symbol,
                               "Cannot read properties of null">>]
          [] ~IsFinite(price) \/ LeZero(price) ->
                [threw |-> TRUE, price |-> Null,
                 message |-> <<"Failed to get quote for", symbol,
                               "Invalid price for", symbol>>]
          [] OTHER -> [threw |-> FALSE, price |-> price, message |-> <<>>]

\* the PE read from the metric object: the first field that is present
ExtractPe(m) ==
    LET pe == CASE m.peTTM.t # "undef" -> ParseFloat(m.peTTM)
                [] m.peExclExtraTTM.t # "undef" -> ParseFloat(m.peExclExtraTTM)
                [] m.peAnnual.t # "undef" -> ParseFloat(m.peAnnual)
                [] OTHER -> Null
    IN  IF IsFinite(pe) /\ LeZero(pe) THEN Null ELSE pe

\* the trailing EPS read from the metric object
ExtractEps(m) ==
    LET eps == CASE m.epsTTM.t # "undef" -> ParseFloat(m.epsTTM)
                 [] m.epsExclExtraItemsTTM.t # "undef" ->
                        ParseFloat(m.epsExclExtraItemsTTM)
                 [] m.epsAnnual.t # "undef" -> ParseFloat(m.epsAnnual)
                 [] OTHER -> Null
    IN  IF ~IsFinite(eps) THEN Null ELSE eps

\* the beta read from the metric object and the warning an invalid one adds
ExtractBeta(m) ==
    IF Truthy(m.beta)
    THEN LET beta == ParseFloat(m.beta)
         IN  IF ~IsFinite(beta) \/ LtZero(beta)
             THEN [beta |-> Null,
                   warnings |-> << <<"Beta value was invalid; using fallback.">> >>]
             ELSE [beta |-> beta, warnings |-> <<>>]
    ELSE [beta |-> Null, warnings |-> <<>>]

\* the metrics stage with a failure of the call left unrecorded
MetricsStageSilent(sd, resp) ==
    LET f == fetchFinnhub(resp)
    IN  CASE f.threw -> sd
          [] ~resp.body.obj -> sd
          [] resp.body.hasMetric ->
                LET b == ExtractBeta(resp.body)
                IN  [sd EXCEPT !.pe = ExtractPe(resp.body),
                               !.actualEps = ExtractEps(resp.body),
                               !.beta = b.beta,
                               !.warnings = @ \o b.warnings]
          [] OTHER -> sd

\* the metrics stage
MetricsStage(sd, resp) ==
    LET f == fetchFinnhub(resp)
    IN  CASE f.threw ->
                [sd EXCEPT !.warnings = Append(@,
                    <<"Could not fetch metrics; some data may be unavailable">>
                    \o f.message)]
          [] ~resp.body.obj ->
                [sd EXCEPT !.warnings = Append(@,
                    <<"Could not fetch metrics; some data may be unavailable",
                      "Cannot read properties of null">>)]
          [] resp.body.hasMetric ->
                LET b == ExtractBeta(resp.body)
                IN  [sd EXCEPT !.pe = ExtractPe(resp.body),
                               !.actualEps = ExtractEps(resp.body),
                               !.beta = b.beta,
                               !.warnings = @ \o b.warnings]
          [] OTHER -> sd

\* the financials endpoint is asked only when actualEps is falsy
NeedsFinancials(sd) == ~TruthyNum(sd.actualEps)

\* the financials stage: net income of the latest filing as the EPS
FinancialsStage(sd, resp) ==
    LET f == fetchFinnhub(resp)
    IN  CASE f.threw ->
                [sd EXCEPT !.warnings = Append(@,
                    <<"Could not fetch financials">> \o f.message)]
          [] ~resp.body.obj ->
                [sd EXCEPT !.warnings = Append(@,
                    <<"Could not fetch financials",
                      "Cannot read properties of null">>)]
          [] /\ Len(resp.body.data) > 0
             /\ resp.body.data[1].hasReport
             /\ resp.body.data[1].hasIc
             /\ Truthy(resp.body.data[1].NetIncomeLoss) ->
                LET netIncome == ParseFloat(resp.body.data[1].NetIncomeLoss)
                IN  IF IsFinite(netIncome) /\ netIncome # Num(0)
                    THEN [sd EXCEPT !.actualEps = netIncome,
                                    !.warnings = Append(@,
                      <<"Actual EPS derived from reported net income (not per share basis).">>)]
                    ELSE sd
          [] OTHER -> sd

\* the end of getStockData: estimatedEps stays null, beta is defaulted
StockDataReturn(sd0) ==
    LET sd == [sd0 EXCEPT !.estimatedEps = Null]
    IN  IF sd.beta = Null
        THEN [sd EXCEPT !.beta = Num(1),
                        !.warnings = Append(@,
                            <<"Beta value unavailable; using default beta = 1.0">>)]
        ELSE sd

(***************************************************************************)
(* calculatePeg and getEstimatedEpsFromAlphaVantage.                       *)
(***************************************************************************)
\* calculatePeg without its guard
calculatePegUnguarded(pe, growthRateDecimal) ==
    Div(pe, Mul(growthRateDecimal, Num(100)))

calculatePeg(pe, growthRateDecimal) ==
    IF LeZero(growthRateDecimal) \/ ~IsFinite(pe) \/ LeZero(pe)
    THEN Null
    ELSE Div(pe, Mul(growthRateDecimal, Num(100)))

\* the last record of the list with a date and a finite positive average
RECURSIVE LastEstimate(_)
LastEstimate(estimates) ==
    IF estimates = <<>>
    THEN [threw |-> FALSE, message |-> <<>>,
          found |-> FALSE, eps |-> Null, period |-> ""]
    ELSE LET e == Head(estimates)
             eps == ParseFloat(e.eps_estimate_average)
             rest == LastEstimate(Tail(estimates))
         IN  IF rest.found
             THEN rest
             ELSE IF /\ Truthy(e.date)
                     /\ Truthy(e.eps_estimate_average)
                     /\ IsFinite(eps)
                     /\ GtZero(eps)
                  THEN [threw |-> FALSE, message |-> <<>>,
                        found |-> TRUE, eps |-> eps, period |-> e.date.s]
                  ELSE rest

\* the first record of the list with a date and a finite positive average
RECURSIVE FirstEstimate(_)
FirstEstimate(estimates) ==
    IF estimates = <<>>
    THEN [threw |-> FALSE, message |-> <<>>,
          found |-> FALSE, eps |-> Null, period |-> ""]
    ELSE LET e == Head(estimates)
             eps == ParseFloat(e.eps_estimate_average)
         IN  IF /\ Truthy(e.date)
                /\ Truthy(e.eps_estimate_average)
                /\ IsFinite(eps)
                /\ GtZero(eps)
             THEN [threw |-> FALSE, message |-> <<>>,
                   found |-> TRUE, eps |-> eps, period |-> e.date.s]
             ELSE FirstEstimate(Tail(estimates))

\* the resolver without its catch: the error of the fetch is raised
getEstimatedEpsUncaught(resp) ==
    IF fetchAlphaVantage(resp).threw
    THEN [threw |-> TRUE, message |-> fetchAlphaVantage(resp).message,
          found |-> FALSE, eps |-> Null, period |-> ""]
    ELSE FirstEstimate(resp.body.estimates)

\* the catch of the resolver turns every error into null
getEstimatedEpsFromAlphaVantage(resp) ==
    IF fetchAlphaVantage(resp).threw
    THEN [threw |-> FALSE, message |-> <<>>,
          found |-> FALSE, eps |-> Null, period |-> ""]
    ELSE FirstEstimate(resp.body.estimates)

(***************************************************************************)
(* calculateStockValuation.  params: symbol, market, hasAlphaKey (whether  *)
(* alphaVantageApiKey is truthy) and marketGrowthRatePercent, a JSON value *)
(* (Undef when the caller leaves it out).                                  *)
(***************************************************************************)
\* the hardcoded market PE
MarketPeConstant == 29

\* Number(x) of a growth-rate input: a number or a numeric string
NumberOf(x) == ParseFloat(x)

\* destructuring defaults: market = 'US', marketGrowthRatePercent = 10
WithDefaults(p) ==
    [p EXCEPT !.market = IF @ = "" THEN "US" ELSE @,
              !.marketGrowthRatePercent = IF @.t = "undef" THEN JNum(10, 1) ELSE @]

\* the market PEG of step 1: the hardcoded PE over the hardcoded 13.5
MarketPeg(marketPe, marketGrowthRatePercent) == Div(marketPe, Rat(27, 2))

\* the result object as created, with step 1 applied
StartedResult(p0) ==
    LET p == WithDefaults(p0)
    IN  [symbol |-> p.symbol,
         market |-> p.market,
         marketPe |-> Num(MarketPeConstant),
         marketPeg |-> MarketPeg(Num(MarketPeConstant), p.marketGrowthRatePercent),
         beta |-> Null,
         actualEps |-> Null,
         estimatedEps |-> Null,
         stockPe |-> Null,
         growthRate |-> Null,
         stockPeg |-> Null,
         currentPrice |-> Null,
         fairValue |-> Null,
         assumptions |-> [marketGrowthRatePercent |-> p.marketGrowthRatePercent,
                          fairValueNote |->
                            "Fair value = price * (market PEG * beta / stock PEG)"],
         warnings |-> <<>>,
         hasForwardEps |-> FALSE,
         betaFallbackUsed |-> FALSE,
         valuationPossible |-> FALSE]

\* the result of a call that has not started
NoResult == StartedResult([symbol |-> "", market |-> "", hasAlphaKey |-> FALSE,
                           marketGrowthRatePercent |-> Undef])

\* step 2 without the warnings of getStockData
WithStockDataNoWarnings(r, sd) ==
    [r EXCEPT !.beta = sd.beta,
              !.actualEps = sd.actualEps,
              !.estimatedEps = sd.estimatedEps,
              !.currentPrice = sd.price]

\* step 2: the stock data copied into the result
WithStockData(r, sd) ==
    [r EXCEPT !.beta = sd.beta,
              !.actualEps = sd.actualEps,
              !.estimatedEps = sd.estimatedEps,
              !.currentPrice = sd.price,
              !.warnings = @ \o sd.warnings]

\* step 2b taken whether or not a secondary key is given
NeedsEstimateWithoutKey(r, p) == ~IsFinite(r.estimatedEps)

\* step 2b is taken when no estimate is there and a secondary key is given
NeedsEstimate(r, p) == ~IsFinite(r.estimatedEps) /\ p.hasAlphaKey

\* step 2b: the estimate of the secondary provider, when one was found
WithEstimate(r, est) ==
    IF est.found
    THEN [r EXCEPT !.estimatedEps = est.eps,
                   !.warnings = Append(@,
                      <<"Estimated EPS from Alpha Vantage for period", est.period>>)]
    ELSE r

\* String.prototype.includes on the warnings the program builds: a warning
\* includes `part` when one of its segments does
SegmentIncludes(segment, part) ==
    /\ segment = "Beta value unavailable; using default beta = 1.0"
    /\ part \in {"default", "default beta"}

WarningIncludes(w, part) == \E i \in 1..Len(w) : SegmentIncludes(w[i], part)

\* the flag taken from the value of beta alone
BetaFallbackWhenOne(sd) == sd.beta = Num(1)

\* whether the beta of the stock data was defaulted
BetaFallbackUsed(sd) ==
    /\ \/ sd.beta # Num(1)
       \/ \E i \in 1..Len(sd.warnings) : WarningIncludes(sd.warnings[i], "default")
    /\ \E i \in 1..Len(sd.warnings) : WarningIncludes(sd.warnings[i], "default beta")

\* the growth rate without the "- 1"
GrowthRateAsRatio(estimatedEps, actualEps) == Div(estimatedEps, actualEps)

\* step 3: the growth rate, estimatedEps / actualEps - 1
GrowthRate(estimatedEps, actualEps) == Sub(Div(estimatedEps, actualEps), Num(1))

\* the fair value with beta as a plain factor
FairValueBetaFactor(r) ==
    Mul(r.currentPrice, Div(Mul(r.marketPeg, r.beta), r.stockPeg))

\* step 6: the fair value
FairValue(r) ==
    Mul(r.currentPrice,
        Div(Add(r.marketPeg,
                Mul(Mul(Sub(r.beta, Num(1)), Rat(7, 10)), r.marketPeg)),
            r.stockPeg))

\* step 6 without the flag
WithFairValueOnly(r) == [r EXCEPT !.fairValue = FairValue(r)]

\* step 6 and the flag that follows it
WithFairValue(r) ==
    [r EXCEPT !.fairValue = FairValue(r), !.valuationPossible = TRUE]

\* the EPS gate
EpsMissing(r) == ~IsFinite(r.actualEps) \/ ~IsFinite(r.estimatedEps)

\* steps 3 to 6 with the growth gate taken before the PE is resolved
ValuateGrowthGateFirst(r0, sd) ==
    LET r1 == [r0 EXCEPT !.hasForwardEps = TRUE,
                         !.growthRate = GrowthRate(r0.estimatedEps, r0.actualEps)]
        derived == TruthyNum(r1.currentPrice) /\ TruthyNum(r1.actualEps)
        r2 == CASE sd.pe # Null -> [r1 EXCEPT !.stockPe = sd.pe]
                [] derived ->
                    [r1 EXCEPT !.stockPe = Div(r1.currentPrice, r1.actualEps),
                               !.warnings = Append(@,
                        <<"PE calculated from price / actualEps (not from API).">>)]
                [] OTHER -> r1
        r3 == [r2 EXCEPT !.stockPeg = calculatePeg(r2.stockPe, r2.growthRate)]
    IN  CASE LeZero(r1.growthRate) ->
                [r1 EXCEPT !.warnings = Append(@,
                    <<"Growth rate or PE is non-positive; PEG-based valuation not meaningful.">>),
                           !.valuationPossible = FALSE]
          [] sd.pe = Null /\ ~derived ->
                [r1 EXCEPT !.warnings = Append(@,
                    <<"Cannot calculate PE; price or EPS missing.">>),
                           !.valuationPossible = FALSE]
          [] LeZero(r2.stockPe) ->
                [r2 EXCEPT !.warnings = Append(@,
                    <<"Growth rate or PE is non-positive; PEG-based valuation not meaningful.">>),
                           !.valuationPossible = FALSE]
          [] r3.stockPeg = Null \/ LeZero(r3.stockPeg) ->
                [r3 EXCEPT !.warnings = Append(@,
                    <<"PEG calculation resulted in non-positive value; valuation not possible.">>),
                           !.valuationPossible = FALSE]
          [] OTHER -> WithFairValue(r3)

\* steps 3 to 6 on a result that passed the EPS gate
Valuate(r0, sd) ==
    LET r1 == [r0 EXCEPT !.hasForwardEps = TRUE,
                         !.growthRate = GrowthRate(r0.estimatedEps, r0.actualEps)]
        derived == TruthyNum(r1.currentPrice) /\ TruthyNum(r1.actualEps)
        r2 == CASE sd.pe # Null -> [r1 EXCEPT !.stockPe = sd.pe]
                [] derived ->
                    [r1 EXCEPT !.stockPe = Div(r1.currentPrice, r1.actualEps),
                               !.warnings = Append(@,
                        <<"PE calculated from price / actualEps (not from API).">>)]
                [] OTHER -> r1
        r3 == [r2 EXCEPT !.stockPeg = calculatePeg(r2.stockPe, r2.growthRate)]
    IN  CASE sd.pe = Null /\ ~derived ->
                [r1 EXCEPT !.warnings = Append(@,
                    <<"Cannot calculate PE; price or EPS missing.">>),
                           !.valuationPossible = FALSE]
          [] LeZero(r2.growthRate) \/ LeZero(r2.stockPe) ->
                [r2 EXCEPT !.warnings = Append(@,
                    <<"Growth rate or PE is non-positive; PEG-based valuation not meaningful.">>),
                           !.valuationPossible = FALSE]
          [] r3.stockPeg = Null \/ LeZero(r3.stockPeg) ->
                [r3 EXCEPT !.warnings = Append(@,
                    <<"PEG calculation resulted in non-positive value; valuation not possible.">>),
                           !.valuationPossible = FALSE]
          [] OTHER -> WithFairValue(r3)

\* the rest of the try block once the estimate is in the result
Synthesize(r0, sd) ==
    LET r == [r0 EXCEPT !.betaFallbackUsed = BetaFallbackUsed(sd)]
    IN  IF EpsMissing(r)
        THEN [r EXCEPT !.warnings = Append(@,
                <<"Missing or invalid EPS data; valuation cannot be completed. Finnhub free API may not provide detailed EPS estimates.">>),
                       !.valuationPossible = FALSE]
        ELSE Valuate(r, sd)

\* the error of the try block left to propagate
TopLevelRethrow(r, message) ==
    [state |-> "rejected", error |-> message, result |-> r]

\* how the promise of calculateStockValuation settles when the try block
\* raised `message`: the catch turns it into a warning of the result
TopLevelCatch(r, message) ==
    [state |-> "fulfilled",
     error |-> <<>>,
     result |-> [r EXCEPT !.warnings = Append(@,
                     <<"Error during calculation">> \o message),
                          !.valuationPossible = FALSE]]

\* how it settles when the try block ended or returned
Returned(r) == [state |-> "fulfilled", error |-> <<>>, result |-> r]

(***************************************************************************)
(* What the providers may answer.                                          *)
(***************************************************************************)
SeqsUpTo(S, n) == UNION {[1..k -> S] : k \in 0..n}

NoQuote == [obj |-> FALSE, c |-> Undef]
NoMetrics ==
    [obj |-> FALSE, hasMetric |-> FALSE,
     peTTM |-> Undef, peExclExtraTTM |-> Undef, peAnnual |-> Undef,
     epsTTM |-> Undef, epsExclExtraItemsTTM |-> Undef, epsAnnual |-> Undef,
     beta |-> Undef]
NoFinancials == [obj |-> FALSE, data |-> <<>>]
NoEstimates == [obj |-> FALSE, Note |-> Undef, Error |-> Undef, estimates |-> <<>>]

\* a call that has not been answered
Unanswered(body) == [kind |-> "none", status |-> "", body |-> body]
\* a call that failed: a rejected fetch, or a non-2xx status
Failed(body) ==
    {[kind |-> "neterr", status |-> "", body |-> body],
     [kind |-> "status", status |-> "500", body |-> body]}
\* a call answered with a JSON body
Ok(body) == [kind |-> "ok", status |-> "200", body |-> body]

QuoteBodies ==
    {[obj |-> TRUE, c |-> c] : c \in {JNum(100, 1), JNum(0, 1), Undef}}
QuoteResponses == Failed(NoQuote) \cup {Ok(b) : b \in QuoteBodies \cup {NoQuote}}

\* the PE fields, the EPS fields and the beta a metric object may hold
PeFields ==
    {<<Undef, Undef, Undef>>,
     <<JNum(20, 1), Undef, Undef>>,
     <<JNum(-5, 1), Undef, JNum(30, 1)>>,
     <<JNull, JNum(25, 1), Undef>>,
     <<Undef, JNum(25, 1), JNum(30, 1)>>,
     <<Undef, Undef, JNum(30, 1)>>}
EpsFields ==
    {<<Undef, Undef, Undef>>,
     <<JNum(4, 1), Undef, Undef>>,
     <<JNum(0, 1), Undef, Undef>>,
     <<JNum(-2, 1), Undef, Undef>>,
     <<JNum(6, 1), Undef, Undef>>,
     <<JNull, Undef, JNum(5, 1)>>,
     <<Undef, JNum(5, 1), JNum(8, 1)>>,
     <<Undef, Undef, JNum(8, 1)>>}
BetaFields ==
    {Undef, JNum(1, 1), JNum(2, 1), JNum(0, 1), JNum(-1, 1), JStr("abc")}

MetricsBody(pe, eps, beta) ==
    [obj |-> TRUE, hasMetric |-> TRUE,
     peTTM |-> pe[1], peExclExtraTTM |-> pe[2], peAnnual |-> pe[3],
     epsTTM |-> eps[1], epsExclExtraItemsTTM |-> eps[2], epsAnnual |-> eps[3],
     beta |-> beta]
MetricsBodies ==
    {MetricsBody(pe, eps, beta) : pe \in PeFields, eps \in EpsFields,
                                  beta \in BetaFields}
    \cup {[NoMetrics EXCEPT !.obj = TRUE]}
MetricsResponses ==
    Failed(NoMetrics) \cup {Ok(b) : b \in MetricsBodies \cup {NoMetrics}}

Filing(hasReport, hasIc, netIncome) ==
    [hasReport |-> hasReport, hasIc |-> hasIc, NetIncomeLoss |-> netIncome]
FinancialsBodies ==
    {[obj |-> TRUE, data |-> d] :
        d \in {<<>>,
               <<Filing(FALSE, FALSE, Undef)>>,
               <<Filing(TRUE, TRUE, JNum(3, 1))>>,
               <<Filing(TRUE, TRUE, JNum(-50, 1))>>,
               <<Filing(TRUE, TRUE, JNum(0, 1))>>}}
FinancialsResponses ==
    Failed(NoFinancials) \cup {Ok(b) : b \in FinancialsBodies \cup {NoFinancials}}

EstimateRecords ==
    {[date |-> JStr("2026-12-31"), eps_estimate_average |-> JStr("6")],
     [date |-> JStr("2025-12-31"), eps_estimate_average |-> JStr("-2")],
     [date |-> Undef, eps_estimate_average |-> JStr("8")],
     [date |-> JStr("2027-12-31"), eps_estimate_average |-> JStr("8")]}
EstimatesBodies ==
    {[obj |-> TRUE, Note |-> Undef, Error |-> Undef, estimates |-> es] :
        es \in SeqsUpTo(EstimateRecords, MaxEstimates)}
    \cup {[obj |-> TRUE, Note |-> JStr("rate limit"), Error |-> Undef,
           estimates |-> <<>>],
          [obj |-> TRUE, Note |-> Undef, Error |-> JStr("Invalid API call"),
           estimates |-> <<>>],
          [obj |-> TRUE, Note |-> Undef, Error |-> JStr("None"),
           estimates |-> <<[date |-> JStr("2026-12-31"),
                            eps_estimate_average |-> JStr("6")]>>]}
EstimatesResponses ==
    Failed(NoEstimates) \cup {Ok(b) : b \in EstimatesBodies \cup {NoEstimates}}

(***************************************************************************)
(* State.  calc[t] holds one call of calculateStockValuation: where it is  *)
(* (pc), its params, the locals of getStockData (sd), its result object,   *)
(* how its promise settled, the endpoints it requested so far (calls) and  *)
(* the answers it received (fetched).  settled lists the calls in the      *)
(* order in which their promises settled.  request and response are those  *)
(* of the HTTP endpoint, when the calls were made by one.                  *)
(***************************************************************************)
VARIABLES request, response, calc, settled

vars == <<request, response, calc, settled>>

Tasks == 1..MaxBatch

NoParams ==
    [symbol |-> "", market |-> "", hasAlphaKey |-> FALSE,
     marketGrowthRatePercent |-> Undef]

Pending == [state |-> "pending", error |-> <<>>]

NothingFetched ==
    [quote |-> Unanswered(NoQuote), metrics |-> Unanswered(NoMetrics),
     financials |-> Unanswered(NoFinancials), estimates |-> Unanswered(NoEstimates)]

\* a call that was not made
Idle ==
    [pc |-> "idle", params |-> NoParams, sd |-> StockDataLocals,
     result |-> NoResult, promise |-> Pending, calls |-> <<>>,
     fetched |-> NothingFetched]

\* calculateStockValuation(p) up to its first await: the result object is
\* created, step 1 is done and the quote is requested
Started(p) ==
    [Idle EXCEPT !.pc = "quote", !.params = p, !.result = StartedResult(p),
                 !.calls = <<"quote">>]

\* the call settles: its promise is fulfilled or rejected
Settled(c, outcome) ==
    [c EXCEPT !.pc = "done",
              !.result = outcome.result,
              !.promise = [state |-> outcome.state, error |-> outcome.error]]

\* getStockData returned sd: steps 2 and 2b up to the next await, or to the end
AfterStockData(c, sd) ==
    LET r == WithStockData(c.result, sd)
    IN  IF NeedsEstimate(r, c.params)
        THEN [c EXCEPT !.pc = "estimates", !.sd = sd, !.result = r,
                       !.calls = Append(@, "estimates")]
        ELSE Settled([c EXCEPT !.sd = sd], Returned(Synthesize(r, sd)))

\* the quote is answered, and a failed quote does not stop getStockData
OnQuoteContinue(c0, resp) ==
    LET c == [c0 EXCEPT !.fetched.quote = resp]
        q == QuoteStage(c.params.symbol, resp)
    IN  [c EXCEPT !.pc = "metrics", !.sd.price = q.price,
                  !.calls = Append(@, "metrics")]

\* the quote is answered
OnQuote(c0, resp) ==
    LET c == [c0 EXCEPT !.fetched.quote = resp]
        q == QuoteStage(c.params.symbol, resp)
    IN  IF q.threw
        THEN Settled(c, TopLevelCatch(c.result, q.message))
        ELSE [c EXCEPT !.pc = "metrics", !.sd.price = q.price,
                       !.calls = Append(@, "metrics")]

\* the metrics are answered
OnMetrics(c0, resp) ==
    LET c == [c0 EXCEPT !.fetched.metrics = resp]
        sd == MetricsStage(c.sd, resp)
    IN  IF NeedsFinancials(sd)
        THEN [c EXCEPT !.pc = "financials", !.sd = sd,
                       !.calls = Append(@, "financials")]
        ELSE AfterStockData(c, StockDataReturn(sd))

\* the reported financials are answered
OnFinancials(c0, resp) ==
    LET c == [c0 EXCEPT !.fetched.financials = resp]
    IN  AfterStockData(c, StockDataReturn(FinancialsStage(c.sd, resp)))

\* the earnings estimates are answered
OnEstimates(c0, resp) ==
    LET c == [c0 EXCEPT !.fetched.estimates = resp]
        est == getEstimatedEpsFromAlphaVantage(resp)
        r == WithEstimate(c.result, est)
    IN  IF est.threw
        THEN Settled(c, TopLevelCatch(c.result, est.message))
        ELSE Settled(c, Returned(Synthesize(r, c.sd)))

(***************************************************************************)
(* The valuation on its own: one call of calculateStockValuation with      *)
(* params drawn from DirectParams, task 1.                                 *)
(***************************************************************************)
DirectParams ==
    {[symbol |-> "AAPL", market |-> "", hasAlphaKey |-> TRUE,
      marketGrowthRatePercent |-> Undef],
     [symbol |-> "0700.HK", market |-> "HK", hasAlphaKey |-> TRUE,
      marketGrowthRatePercent |-> JNum(27, 2)],
     [symbol |-> "AAPL", market |-> "US", hasAlphaKey |-> FALSE,
      marketGrowthRatePercent |-> JStr("8")]}

NoRequest ==
    [endpoint |-> "none", symbols |-> <<>>, markets |-> <<>>,
     finnhubApiKey |-> "", envFinnhubApiKey |-> "",
     alphaVantageApiKey |-> "", envAlphaVantageApiKey |-> "",
     marketGrowthRatePercent |-> Undef]
NoResponse == [status |-> "none", count |-> 0, results |-> <<>>]

Init ==
    /\ request = NoRequest
    /\ response = NoResponse
    /\ calc = [t \in Tasks |-> Idle]
    /\ settled = <<>>

\* a step of call t with one warnings list shared by every call
StepSharedWarnings(t, c) ==
    /\ calc' = [u \in Tasks |->
                  IF u = t THEN c
                  ELSE IF calc[u].pc = "idle" THEN calc[u]
                  ELSE [calc[u] EXCEPT !.sd.warnings = c.sd.warnings]]
    /\ settled' = IF c.pc = "done" THEN Append(settled, t) ELSE settled
    /\ UNCHANGED <<request, response>>

\* call t takes a step to c: when it settles, it joins the settled calls
Step(t, c) ==
    /\ calc' = [calc EXCEPT ![t] = c]
    /\ settled' = IF c.pc = "done" THEN Append(settled, t) ELSE settled
    /\ UNCHANGED <<request, response>>

\* calculateStockValuation is called
Calculate ==
    /\ request.endpoint = "none"
    /\ calc[1].pc = "idle"
    /\ \E p \in DirectParams : Step(1, Started(p))

QuoteReturns(t, resp) ==
    /\ calc[t].pc = "quote"
    /\ Step(t, OnQuote(calc[t], resp))

MetricsReturns(t, resp) ==
    /\ calc[t].pc = "metrics"
    /\ Step(t, OnMetrics(calc[t], resp))

FinancialsReturns(t, resp) ==
    /\ calc[t].pc = "financials"
    /\ Step(t, OnFinancials(calc[t], resp))

EstimatesReturns(t, resp) ==
    /\ calc[t].pc = "estimates"
    /\ Step(t, OnEstimates(calc[t], resp))

Next ==
    \/ Calculate
    \/ \E t \in Tasks, resp \in QuoteResponses : QuoteReturns(t, resp)
    \/ \E t \in Tasks, resp \in MetricsResponses : MetricsReturns(t, resp)
    \/ \E t \in Tasks, resp \in FinancialsResponses : FinancialsReturns(t, resp)
    \/ \E t \in Tasks, resp \in EstimatesResponses : EstimatesReturns(t, resp)

Spec == Init /\ [][Next]_vars

(***************************************************************************)
(* GET /api/valuation/batch.  A comma-separated query parameter is held as *)
(* the sequence of its parts: <<>> is a parameter that was not given and   *)
(* <<"">> the empty string.                                                *)
(***************************************************************************)
\* String.prototype.trim and toUpperCase on the strings of the requests
Trim(str) ==
    CASE str = " msft " -> "msft"
      [] str = " " -> ""
      [] str = " HK" -> "HK"
      [] OTHER -> str

ToUpperCase(str) ==
    CASE str = "aapl" -> "AAPL"
      [] str = "msft" -> "MSFT"
      [] OTHER -> str

\* a query parameter that is undefined or the empty string
Falsy(parts) == parts = <<>> \/ parts = <<"">>

MapTrim(parts) == [i \in 1..Len(parts) |-> Trim(parts[i])]

\* symbols.split(',').map(s => s.trim()).filter(s => s)
SymbolList(req) == SelectSeq(MapTrim(req.symbols), LAMBDA str : str # "")

\* markets.split(',').map(m => m.trim()), or 'US' for every symbol
MarketList(req) ==
    IF Falsy(req.markets)
    THEN [i \in 1..Len(SymbolList(req)) |-> "US"]
    ELSE MapTrim(req.markets)

\* the key of the query, or else the key of the environment
KeyOf(queryKey, envKey) == IF queryKey # "" THEN queryKey ELSE envKey

\* marketList[index] || 'US'
MarketAt(marketList, index) ==
    IF index \in 1..Len(marketList) /\ marketList[index] # ""
    THEN marketList[index]
    ELSE "US"

\* parseFloat(marketGrowthRatePercent) || 10
BatchGrowthRate(x) ==
    IF TruthyNum(ParseFloat(x))
    THEN [t |-> "num", v |-> ParseFloat(x), s |-> ""]
    ELSE JNum(10, 1)

\* the params of the call for the index-th symbol
BatchParams(req, index) ==
    [symbol |-> ToUpperCase(SymbolList(req)[index]),
     market |-> MarketAt(MarketList(req), index),
     hasAlphaKey |-> KeyOf(req.alphaVantageApiKey, req.envAlphaVantageApiKey) # "",
     marketGrowthRatePercent |-> BatchGrowthRate(req.marketGrowthRatePercent)]

\* the request is answered 400 before any call is made
BatchRejected(req) ==
    \/ KeyOf(req.finnhubApiKey, req.envFinnhubApiKey) = ""
    \/ Falsy(req.symbols)
    \/ Len(SymbolList(req)) = 0

\* the .catch of one call: a rejection becomes {symbol, error, valuationPossible}
ItemCatch(c, symbol) ==
    IF c.promise.state = "rejected"
    THEN [symbol |-> symbol, error |-> c.promise.error, valuationPossible |-> FALSE]
    ELSE c.result

\* Promise.all over calls that cannot reject: item i is the value of call i,
\* whatever the order (order lists the calls as they settled)
PromiseAllByCompletion(items, order) == [i \in 1..Len(items) |-> items[order[i]]]

PromiseAll(items, order) == items

\* res.json({processingTime, count: results.length, results})
BatchJson(results) ==
    [status |-> "200", count |-> Len(results), results |-> results]

BadRequest == [status |-> "400", count |-> 0, results |-> <<>>]

BatchRequests ==
    {[endpoint |-> "batch", symbols |-> syms, markets |-> v.markets,
      finnhubApiKey |-> v.key, envFinnhubApiKey |-> v.envKey,
      alphaVantageApiKey |-> v.alphaKey, envAlphaVantageApiKey |-> "",
      marketGrowthRatePercent |-> v.rate] :
        syms \in SeqsUpTo({"aapl", " msft ", ""}, MaxBatch),
        v \in {[markets |-> <<>>, key |-> "fk", envKey |-> "", alphaKey |-> "ak",
                rate |-> Undef],
               [markets |-> <<"", " HK">>, key |-> "", envKey |-> "fk",
                alphaKey |-> "", rate |-> JStr("8")],
               [markets |-> <<"HK">>, key |-> "fk", envKey |-> "",
                alphaKey |-> "", rate |-> JStr("abc")],
               [markets |-> <<>>, key |-> "", envKey |-> "",
                alphaKey |-> "ak", rate |-> Undef]}}

\* the handler up to its await: the request is rejected, or every call is
\* started
BatchRequest ==
    /\ request.endpoint = "none"
    /\ \A t \in Tasks : calc[t].pc = "idle"
    /\ \E req \in BatchRequests :
        /\ request' = req
        /\ IF BatchRejected(req)
           THEN /\ response' = BadRequest
                /\ calc' = calc
           ELSE /\ response' = response
                /\ calc' = [t \in Tasks |->
                              IF t <= Len(SymbolList(req))
                              THEN Started(BatchParams(req, t))
                              ELSE Idle]
    /\ UNCHANGED settled

\* every call has settled: the handler answers
BatchRespond ==
    /\ request.endpoint = "batch"
    /\ response.status = "none"
    /\ \A t \in 1..Len(SymbolList(request)) : calc[t].pc = "done"
    /\ response' =
          BatchJson(PromiseAll([i \in 1..Len(SymbolList(request)) |->
                                   ItemCatch(calc[i], SymbolList(request)[i])],
                               settled))
    /\ UNCHANGED <<request, calc, settled>>

\* what the providers answer in the batch runs
BatchQuoteResponses ==
    {[kind |-> "status", status |-> "500", body |-> NoQuote],
     Ok([obj |-> TRUE, c |-> JNum(0, 1)]),
     Ok([obj |-> TRUE, c |-> JNum(100, 1)])}
BatchMetricsResponses ==
    {[kind |-> "status", status |-> "500", body |-> NoMetrics],
     Ok(MetricsBody(<<JNum(20, 1), Undef, Undef>>, <<JNum(4, 1), Undef, Undef>>,
                    JNum(2, 1)))}
BatchFinancialsResponses ==
    {Ok([obj |-> TRUE, data |-> <<>>]),
     Ok([obj |-> TRUE, data |-> <<Filing(TRUE, TRUE, JNum(3, 1))>>])}
BatchEstimatesResponses ==
    {[kind |-> "neterr", status |-> "", body |-> NoEstimates],
     Ok([obj |-> TRUE, Note |-> Undef, Error |-> Undef,
         estimates |-> <<[date |-> JStr("2026-12-31"),
                          eps_estimate_average |-> JStr("6")]>>])}

NextBatch ==
    \/ BatchRequest
    \/ \E t \in Tasks, resp \in BatchQuoteResponses : QuoteReturns(t, resp)
    \/ \E t \in Tasks, resp \in BatchMetricsResponses : MetricsReturns(t, resp)
    \/ \E t \in Tasks, resp \in BatchFinancialsResponses : FinancialsReturns(t, resp)
    \/ \E t \in Tasks, resp \in BatchEstimatesResponses : EstimatesReturns(t, resp)
    \/ BatchRespond

SpecBatch == Init /\ [][NextBatch]_vars

(***************************************************************************)
(* Properties of calculateStockValuation.                                  *)
(***************************************************************************)
\* the calls that returned a result
HasReturned(t) == calc[t].pc = "done" /\ calc[t].promise.state = "fulfilled"

\* a number is present: neither null nor NaN
Present(x) == x.k \notin {"null", "nan"}

Last(w) == w[Len(w)]

\* C1: in every returned result, valuationPossible = TRUE implies that
\* fairValue, stockPeg, marketPeg and growthRate are present and that
\* stockPeg > 0, growthRate > 0 and stockPe > 0.
C1_PossibleImpliesComplete ==
    \A t \in Tasks :
        (HasReturned(t) /\ calc[t].result.valuationPossible) =>
            LET r == calc[t].result
            IN  /\ Present(r.fairValue) /\ Present(r.stockPeg)
                /\ Present(r.marketPeg) /\ Present(r.growthRate)
                /\ GtZero(r.stockPeg) /\ GtZero(r.growthRate) /\ GtZero(r.stockPe)

\* a valuation that succeeded with a derived PE
C1_Witness ==
    \E t \in Tasks :
        /\ HasReturned(t) /\ calc[t].result.valuationPossible
        /\ calc[t].sd.pe = Null

\* C2: in every returned result, valuationPossible = FALSE implies that
\* fairValue is null.
C2_NotPossibleImpliesNoFairValue ==
    \A t \in Tasks :
        (HasReturned(t) /\ ~calc[t].result.valuationPossible) =>
            calc[t].result.fairValue = Null

\* a valuation stopped at the PEG gate, after stockPe and growthRate were set
C2_Witness ==
    \E t \in Tasks :
        /\ HasReturned(t) /\ ~calc[t].result.valuationPossible
        /\ calc[t].result.stockPe # Null
        /\ Present(calc[t].result.growthRate)

\* the quote stage of the call raised an error
QuoteFailed(t) ==
    /\ calc[t].fetched.quote.kind # "none"
    /\ QuoteStage(calc[t].params.symbol, calc[t].fetched.quote).threw

\* C3: the promise of calculateStockValuation is never rejected, and when
\* the price could not be obtained the result has valuationPossible = FALSE
\* and its last warning is "Error during calculation" followed by the text
\* of the error.
C3_NeverThrows ==
    \A t \in Tasks :
        /\ calc[t].promise.state # "rejected"
        /\ QuoteFailed(t) =>
            /\ HasReturned(t)
            /\ ~calc[t].result.valuationPossible
            /\ Len(calc[t].result.warnings) > 0
            /\ LET w == Last(calc[t].result.warnings)
                   e == QuoteStage(calc[t].params.symbol, calc[t].fetched.quote).message
               IN  /\ w = <<"Error during calculation">> \o e
                   /\ Len(e) > 2
                   /\ SubSeq(e, 1, 2) = <<"Failed to get quote for", calc[t].params.symbol>>

\* a call whose quote was answered with a price that is not positive
C3_Witness ==
    \E t \in Tasks :
        /\ HasReturned(t)
        /\ calc[t].fetched.quote.kind = "ok"
        /\ calc[t].fetched.quote.body.obj
        /\ QuoteFailed(t)

\* both EPS figures of the result are finite and estimatedEps <= actualEps
EstimateNotAboveActual(r) ==
    /\ IsFinite(r.actualEps) /\ IsFinite(r.estimatedEps)
    /\ LeqFinite(r.estimatedEps, r.actualEps)

\* C4: a returned result whose EPS figures are both finite with
\* estimatedEps <= actualEps has valuationPossible = FALSE and no fairValue.
C4_NoGrowthNoValuation ==
    \A t \in Tasks :
        (HasReturned(t) /\ EstimateNotAboveActual(calc[t].result)) =>
            /\ ~calc[t].result.valuationPossible
            /\ calc[t].result.fairValue = Null

\* such a result with a provider-reported PE
C4_Witness ==
    \E t \in Tasks :
        /\ HasReturned(t) /\ EstimateNotAboveActual(calc[t].result)
        /\ IsFinite(calc[t].sd.pe)
        /\ calc[t].result.stockPe = calc[t].sd.pe

\* C5: the marketPeg of every result is its marketPe divided by the market
\* growth rate percent of the request, which assumptions records.
C5_MarketPegFromRequest ==
    \A t \in Tasks :
        calc[t].pc # "idle" =>
            calc[t].result.marketPeg =
                Div(calc[t].result.marketPe,
                    NumberOf(calc[t].result.assumptions.marketGrowthRatePercent))

C7_FairValueAsDocumented ==
    \A t \in Tasks :
        (HasReturned(t) /\ calc[t].result.valuationPossible) =>
            LET r == calc[t].result
            IN  r.fairValue =
                    Div(Mul(r.currentPrice, Mul(r.marketPeg, r.beta)), r.stockPeg)

\* the metrics answer holds no beta: the call failed, or the body has no
\* metric object, or the metric object has no beta field
BetaAbsent(resp) ==
    resp.kind # "ok" \/ ~resp.body.obj \/ ~resp.body.hasMetric
        \/ resp.body.beta.t = "undef"

\* the metrics answer holds a beta that getStockData took: truthy, finite, >= 0
BetaTaken(resp) ==
    /\ resp.kind = "ok" /\ resp.body.obj /\ resp.body.hasMetric
    /\ Truthy(resp.body.beta)
    /\ IsFinite(ParseFloat(resp.body.beta))
    /\ ~LtZero(ParseFloat(resp.body.beta))

\* C8: in a result whose price was obtained, a metrics answer without beta
\* gives beta = 1 and betaFallbackUsed = TRUE; a beta taken from the payload
\* is the result's beta with betaFallbackUsed = FALSE; the flag is TRUE only
\* when beta was defaulted.
C8_BetaFallbackFlag ==
    \A t \in Tasks :
        (HasReturned(t) /\ ~QuoteFailed(t)) =>
            LET r == calc[t].result
                m == calc[t].fetched.metrics
            IN  /\ BetaAbsent(m) => (r.beta = Num(1) /\ r.betaFallbackUsed)
                /\ BetaTaken(m) =>
                      (r.beta = ParseFloat(m.body.beta) /\ ~r.betaFallbackUsed)
                /\ r.betaFallbackUsed <=> ~BetaTaken(m)

\* a result whose beta, 1, was read from the payload
C8_Witness ==
    \E t \in Tasks :
        /\ HasReturned(t) /\ ~QuoteFailed(t)
        /\ BetaTaken(calc[t].fetched.metrics)
        /\ calc[t].result.beta = Num(1)

(***************************************************************************)
(* Properties of the batch endpoint.                                       *)
(***************************************************************************)
\* C9: in a batch answer, an item whose price fetch failed is the record
\* {symbol, error, valuationPossible: false} with the failure message in
\* error, and every other item is the result of its valuation.
C9_FailedItemIsErrorRecord ==
    response.status = "200" =>
        \A i \in 1..Len(response.results) :
            IF QuoteFailed(i)
            THEN /\ DOMAIN response.results[i] = {"symbol", "error", "valuationPossible"}
                 /\ response.results[i].error # <<>>
                 /\ ~response.results[i].valuationPossible
            ELSE response.results[i] = calc[i].result

\* the i-th market of the request, or US when none is given
RequestedMarket(req, i) ==
    IF /\ ~Falsy(req.markets) /\ i <= Len(req.markets)
       /\ Trim(req.markets[i]) # ""
    THEN Trim(req.markets[i])
    ELSE "US"

\* C10: a batch answer has one result per non-empty symbol and that count;
\* results[i] is the result of the call made for the i-th non-empty symbol,
\* upper-cased, with the i-th market or US, whatever the order in which the
\* calls settled and however many failed.
C10_BatchResultsInRequestOrder ==
    response.status = "200" =>
        LET n == Cardinality({i \in 1..Len(request.symbols) :
                                 Trim(request.symbols[i]) # ""})
        IN  /\ Len(response.results) = n
            /\ response.count = n
            /\ \A i \in 1..n :
                /\ response.results[i] = calc[i].result
                /\ response.results[i].symbol = ToUpperCase(SymbolList(request)[i])
                /\ response.results[i].market = RequestedMarket(request, i)
                /\ calc[i].params.symbol = response.results[i].symbol

\* a batch of two answered after the second call settled first, the first
\* call having failed and the second having produced a fair value
C10_Witness ==
    /\ response.status = "200"
    /\ response.count = 2
    /\ settled = <<2, 1>>
    /\ QuoteFailed(1)
    /\ response.results[2].valuationPossible
    /\ response.results[1].symbol # response.results[2].symbol

(***************************************************************************)
(* Isolation of concurrent valuations.                                     *)
(***************************************************************************)
\* the call with params p run on its own up to the answers in f: each answer
\* is given to the stage that waits for it
Replay(p, f) ==
    LET c0 == Started(p)
        c1 == IF f.quote.kind # "none" THEN OnQuote(c0, f.quote) ELSE c0
        c2 == IF c1.pc = "metrics" /\ f.metrics.kind # "none"
              THEN OnMetrics(c1, f.metrics) ELSE c1
        c3 == IF c2.pc = "financials" /\ f.financials.kind # "none"
              THEN OnFinancials(c2, f.financials) ELSE c2
    IN  IF c3.pc = "estimates" /\ f.estimates.kind # "none"
        THEN OnEstimates(c3, f.estimates) ELSE c3

EstimatesFailed(resp) ==
    \/ resp.kind \in {"neterr", "status", "badjson"}
    \/ /\ resp.kind = "ok"
       /\ \/ ~resp.body.obj
          \/ resp.body.Note.t = "str" /\ resp.body.Note.s # ""
          \/ resp.body.Error.t = "str" /\ resp.body.Error.s \notin {"", "None"}

MissingEpsWarning ==
    <<"Missing or invalid EPS data; valuation cannot be completed. Finnhub free API may not provide detailed EPS estimates.">>

\* C12: when the estimates call fails (network error, non-2xx status, Note
\* or Error in a 200 body), the resolver raises nothing: the call returns a
\* result with estimatedEps null that stopped at the missing-EPS gate, with
\* no "Error during calculation" warning.
C12_EstimateFailureDegrades ==
    \A t \in Tasks :
        (calc[t].fetched.estimates.kind # "none"
            /\ EstimatesFailed(calc[t].fetched.estimates)) =>
            LET r == calc[t].result
            IN  /\ HasReturned(t)
                /\ r.estimatedEps = Null
                /\ ~r.hasForwardEps
                /\ ~r.valuationPossible
                /\ Last(r.warnings) = MissingEpsWarning
                /\ \A i \in 1..Len(r.warnings) :
                      r.warnings[i][1] # "Error during calculation"
                /\ r.currentPrice = calc[t].sd.price
                /\ r.beta = calc[t].sd.beta

\* a rate-limit notice in a 200 body, with the trailing EPS known
C12_Witness ==
    \E t \in Tasks :
        /\ HasReturned(t)
        /\ calc[t].fetched.estimates.kind = "ok"
        /\ calc[t].fetched.estimates.body.obj
        /\ Truthy(calc[t].fetched.estimates.body.Note)
        /\ IsFinite(calc[t].result.actualEps)

(***************************************************************************)
(* GET /api/valuation.  A query parameter that was not given is "" (Undef  *)
(* for marketGrowthRatePercent, which the handler tests against undefined).*)
(***************************************************************************)
\* the rate is given and parseFloat does not read a finite positive number
RateRejected(rate) ==
    rate.t # "undef" /\ (~IsFinite(ParseFloat(rate)) \/ LeZero(ParseFloat(rate)))

\* the validation without the check of the rate
SingleRejectedRateUnchecked(req) ==
    \/ req.symbol = ""
    \/ KeyOf(req.finnhubApiKey, req.envFinnhubApiKey) = ""
    \/ req.market # "" /\ req.market \notin {"US", "HK"}

\* the request is answered 400 before any call is made
SingleRejected(req) ==
    \/ req.symbol = ""
    \/ KeyOf(req.finnhubApiKey, req.envFinnhubApiKey) = ""
    \/ req.market # "" /\ req.market \notin {"US", "HK"}
    \/ RateRejected(req.marketGrowthRatePercent)

\* the params of the call: market || 'US', marketGrowthRatePercent || 10
SingleParams(req) ==
    [symbol |-> ToUpperCase(req.symbol),
     market |-> IF req.market = "" THEN "US" ELSE req.market,
     hasAlphaKey |-> KeyOf(req.alphaVantageApiKey, req.envAlphaVantageApiKey) # "",
     marketGrowthRatePercent |->
        IF Truthy(req.marketGrowthRatePercent)
        THEN req.marketGrowthRatePercent
        ELSE JNum(10, 1)]

\* res.json(result), res.status(400).json(...), res.status(500).json(...)
SingleJson(result) == [status |-> "200", body |-> result]
SingleBadRequest == [status |-> "400", body |-> [error |-> "Bad Request"]]
SingleServerError(message) ==
    [status |-> "500", body |-> [error |-> "Internal Server Error", message |-> message]]

SingleRequests ==
    {[endpoint |-> "single", symbol |-> sym, market |-> mkt,
      finnhubApiKey |-> k.key, envFinnhubApiKey |-> k.envKey,
      alphaVantageApiKey |-> k.alphaKey, envAlphaVantageApiKey |-> "",
      marketGrowthRatePercent |-> rate] :
        sym \in {"", "aapl"},
        mkt \in {"", "US", "HK", "EU", "hk"},
        k \in {[key |-> "fk", envKey |-> "", alphaKey |-> "ak"],
               [key |-> "", envKey |-> "fk", alphaKey |-> ""],
               [key |-> "", envKey |-> "", alphaKey |-> "ak"]},
        rate \in {Undef, JStr("8"), JStr("8x"), JStr("-2"), JStr("0"),
                  JStr("abc"), JStr("Infinity"), JStr("")}}

\* the handler up to its await: the request is rejected, or the call is made
ValuationRequest ==
    /\ request.endpoint = "none"
    /\ \A t \in Tasks : calc[t].pc = "idle"
    /\ \E req \in SingleRequests :
        /\ request' = req
        /\ IF SingleRejected(req)
           THEN /\ response' = SingleBadRequest
                /\ calc' = calc
           ELSE /\ response' = response
                /\ calc' = [calc EXCEPT ![1] = Started(SingleParams(req))]
    /\ UNCHANGED settled

\* the call has settled: the handler answers with the result, or with 500
\* when the call was rejected
ValuationRespond ==
    /\ request.endpoint = "single"
    /\ response.status = "none"
    /\ calc[1].pc = "done"
    /\ response' = IF calc[1].promise.state = "rejected"
                   THEN SingleServerError(calc[1].promise.error)
                   ELSE SingleJson(calc[1].result)
    /\ UNCHANGED <<request, calc, settled>>

NextSingle ==
    \/ ValuationRequest
    \/ \E t \in Tasks, resp \in BatchQuoteResponses : QuoteReturns(t, resp)
    \/ \E t \in Tasks, resp \in BatchMetricsResponses : MetricsReturns(t, resp)
    \/ \E t \in Tasks, resp \in BatchFinancialsResponses : FinancialsReturns(t, resp)
    \/ \E t \in Tasks, resp \in BatchEstimatesResponses : EstimatesReturns(t, resp)
    \/ ValuationRespond

SpecSingle == Init /\ [][NextSingle]_vars

\* the request is malformed: no symbol, no primary key in the query or the
\* environment, a market other than US and HK, or a rate that does not read
\* as a finite positive number
Malformed(req) ==
    \/ req.symbol = ""
    \/ req.finnhubApiKey = "" /\ req.envFinnhubApiKey = ""
    \/ req.market \in {"EU", "hk"}
    \/ req.marketGrowthRatePercent \in
          {JStr("-2"), JStr("0"), JStr("abc"), JStr("Infinity"), JStr("")}

C13_AnsweredNotPossible ==
    /\ request.endpoint = "single"
    /\ response.status = "200"
    /\ ~response.body.valuationPossible

(***************************************************************************)
(* Properties of the result's provenance and of getStockData's extraction. *)
(***************************************************************************)
\* C14: in every returned result, hasForwardEps is TRUE exactly when
\* estimatedEps is a finite number, whether or not actualEps was obtained.
C14_ForwardEpsFlag ==
    \A t \in Tasks :
        HasReturned(t) =>
            (calc[t].result.hasForwardEps <=> IsFinite(calc[t].result.estimatedEps))

\* the call requested the endpoint
Requested(t, endpoint) ==
    \E i \in 1..Len(calc[t].calls) : calc[t].calls[i] = endpoint

\* the result holds the warning
Warned(t, w) ==
    \E i \in 1..Len(calc[t].result.warnings) : calc[t].result.warnings[i] = w

BetaDefaultWarning == <<"Beta value unavailable; using default beta = 1.0">>
NetIncomeWarning ==
    <<"Actual EPS derived from reported net income (not per share basis).">>
DerivedPeWarning == <<"PE calculated from price / actualEps (not from API).">>
NonPositiveWarning ==
    <<"Growth rate or PE is non-positive; PEG-based valuation not meaningful.">>

\* the approximations of a returned result: beta was not taken from the
\* payload; the financials were asked and actualEps is a non-zero number (the
\* metrics gave none, so it is the net income); stockPe is set though
\* getStockData had no PE; estimatedEps is a number (getStockData gives none)
BetaDefaulted(t) == ~QuoteFailed(t) /\ ~BetaTaken(calc[t].fetched.metrics)
EpsFromNetIncome(t) ==
    /\ Requested(t, "financials")
    /\ calc[t].fetched.financials.kind # "none"
    /\ IsFinite(calc[t].result.actualEps)
    /\ calc[t].result.actualEps # Num(0)
PeDerived(t) == calc[t].result.stockPe # Null /\ calc[t].sd.pe = Null
EpsFromSecondary(t) == IsFinite(calc[t].result.estimatedEps)

\* C15: in every returned result, a defaulted beta, an actualEps taken from
\* net income, a derived stockPe and an estimatedEps of the secondary provider
\* each have their warning in the warnings list.
C15_ApproximationsAreWarned ==
    \A t \in Tasks :
        HasReturned(t) =>
            /\ BetaDefaulted(t) =>
                  (calc[t].result.beta = Num(1) /\ Warned(t, BetaDefaultWarning))
            /\ EpsFromNetIncome(t) => Warned(t, NetIncomeWarning)
            /\ PeDerived(t) =>
                  /\ calc[t].result.stockPe =
                        Div(calc[t].result.currentPrice, calc[t].result.actualEps)
                  /\ Warned(t, DerivedPeWarning)
            /\ EpsFromSecondary(t) =>
                  /\ Requested(t, "estimates")
                  /\ \E i \in 1..Len(calc[t].result.warnings) :
                        /\ Len(calc[t].result.warnings[i]) = 2
                        /\ calc[t].result.warnings[i][1] =
                              "Estimated EPS from Alpha Vantage for period"
                        /\ calc[t].result.warnings[i][2] \in
                              {"2026-12-31", "2027-12-31"}

\* a returned result that uses all four approximations
C15_Witness ==
    \E t \in Tasks :
        /\ HasReturned(t)
        /\ BetaDefaulted(t) /\ EpsFromNetIncome(t)
        /\ PeDerived(t) /\ EpsFromSecondary(t)

\* both EPS figures of the result are finite and its growth rate is not > 0
GrowthGateCase(t) ==
    /\ HasReturned(t)
    /\ IsFinite(calc[t].result.actualEps)
    /\ IsFinite(calc[t].result.estimatedEps)
    /\ LeZero(GrowthRate(calc[t].result.estimatedEps, calc[t].result.actualEps))

\* C16 as stated: when both EPS figures are finite and the growth rate is not
\* > 0, the computation stops before the stock PE is resolved: stockPe is
\* absent and no derived-PE warning is in the list.
C16_GrowthGateBeforePe ==
    \A t \in Tasks :
        GrowthGateCase(t) =>
            /\ calc[t].result.stockPe = Null
            /\ ~Warned(t, DerivedPeWarning)

\* C16: when both EPS figures are finite and the growth rate is not > 0, the
\* stock PE is resolved first (the PE of getStockData, else price / actualEps
\* with the derived-PE warning) and the computation then stops at the combined
\* growth/PE gate: stockPe is set, stockPeg and fairValue are absent,
\* valuationPossible is FALSE, the non-positive warning is last and, when the
\* PE was derived, the derived-PE warning is immediately before it.
C16_PeResolvedBeforeGrowthGate ==
    \A t \in Tasks :
        GrowthGateCase(t) =>
            LET r == calc[t].result
                n == Len(r.warnings)
            IN  /\ r.growthRate = GrowthRate(r.estimatedEps, r.actualEps)
                /\ r.stockPe = IF calc[t].sd.pe # Null THEN calc[t].sd.pe
                               ELSE Div(r.currentPrice, r.actualEps)
                /\ r.stockPe # Null
                /\ r.stockPeg = Null /\ r.fairValue = Null
                /\ ~r.valuationPossible
                /\ r.warnings[n] = NonPositiveWarning
                /\ calc[t].sd.pe = Null =>
                      (n > 1 /\ r.warnings[n - 1] = DerivedPeWarning)
                /\ calc[t].sd.pe # Null => ~Warned(t, DerivedPeWarning)

\* a result stopped at the growth gate with a derived PE
C16_Witness ==
    \E t \in Tasks :
        /\ GrowthGateCase(t)
        /\ calc[t].sd.pe = Null
        /\ Present(calc[t].result.stockPe)
        /\ Warned(t, DerivedPeWarning)

\* getStockData of the call has returned its snapshot
StockDataReturned(t) ==
    calc[t].pc = "estimates" \/ (calc[t].pc = "done" /\ ~QuoteFailed(t))

\* the metric object the call received, when it received one
HasMetric(t) ==
    /\ calc[t].fetched.metrics.kind = "ok"
    /\ calc[t].fetched.metrics.body.obj
    /\ calc[t].fetched.metrics.body.hasMetric

\* C17: in every snapshot returned by getStockData, the trailing PE is null
\* or a finite positive number.
C17_PeAbsentOrPositive ==
    \A t \in Tasks :
        StockDataReturned(t) =>
            \/ calc[t].sd.pe = Null
            \/ IsFinite(calc[t].sd.pe) /\ GtZero(calc[t].sd.pe)

\* the first of the fields, in priority order, that reads as a valid PE
\* (finite, positive) or as a valid EPS (finite); Null when none does
ValidPe(x) == IsFinite(ParseFloat(x)) /\ GtZero(ParseFloat(x))
FirstValidPe(m) ==
    CASE ValidPe(m.peTTM) -> ParseFloat(m.peTTM)
      [] ValidPe(m.peExclExtraTTM) -> ParseFloat(m.peExclExtraTTM)
      [] ValidPe(m.peAnnual) -> ParseFloat(m.peAnnual)
      [] OTHER -> Null
FirstValidEps(m) ==
    CASE IsFinite(ParseFloat(m.epsTTM)) -> ParseFloat(m.epsTTM)
      [] IsFinite(ParseFloat(m.epsExclExtraItemsTTM)) ->
            ParseFloat(m.epsExclExtraItemsTTM)
      [] IsFinite(ParseFloat(m.epsAnnual)) -> ParseFloat(m.epsAnnual)
      [] OTHER -> Null

\* C18: the PE of the snapshot is the first valid PE field of the metric
\* object and, when the financials were not asked, its trailing EPS is the
\* first valid EPS field; a metric object with a valid EPS field never leads
\* to the financials.
C18_FirstValidField ==
    \A t \in Tasks :
        (StockDataReturned(t) /\ HasMetric(t)) =>
            LET m == calc[t].fetched.metrics.body
            IN  /\ calc[t].sd.pe = FirstValidPe(m)
                /\ ~Requested(t, "financials") =>
                      calc[t].sd.actualEps = FirstValidEps(m)
                /\ (FirstValidEps(m) # Null /\ FirstValidEps(m) # Num(0)) =>
                      ~Requested(t, "financials")

\* C19: a beta of the metric object that is finite and >= 0, zero included,
\* is the result's beta with betaFallbackUsed = FALSE.
C19_ValidBetaIsUsed ==
    \A t \in Tasks :
        (HasReturned(t) /\ ~QuoteFailed(t) /\ HasMetric(t)) =>
            LET b == calc[t].fetched.metrics.body.beta
            IN  (b.t # "undef" /\ IsFinite(ParseFloat(b)) /\ ~LtZero(ParseFloat(b))) =>
                    /\ calc[t].result.beta = ParseFloat(b)
                    /\ ~calc[t].result.betaFallbackUsed

\* the trailing EPS that the metrics fetch of the call left
EpsAfterMetrics(t) ==
    IF HasMetric(t) THEN ExtractEps(calc[t].fetched.metrics.body) ELSE Null

\* C20: the financials are asked if and only if the trailing EPS is absent
\* after the metrics fetch; a trailing EPS obtained from the metrics, zero
\* included, stays the trailing EPS of the snapshot.
C20_FinancialsOnlyWhenEpsAbsent ==
    \A t \in Tasks :
        (calc[t].fetched.metrics.kind # "none") =>
            /\ Requested(t, "financials") <=> EpsAfterMetrics(t) = Null
            /\ EpsAfterMetrics(t) # Null => calc[t].sd.actualEps = EpsAfterMetrics(t)

(***************************************************************************)
(* Properties of the failures of getStockData's calls.                     *)
(***************************************************************************)
\* the call was answered and fetchFinnhub threw, or the body was JSON null
CallFailed(resp) == resp.kind # "none" /\ (resp.kind # "ok" \/ ~resp.body.obj)

\* the snapshot holds a warning that starts with the text
SnapshotWarned(t, text) ==
    \E i \in 1..Len(calc[t].sd.warnings) : calc[t].sd.warnings[i][1] = text

\* after a failed metrics call: the financials are requested, the promise is
\* not rejected and the snapshot returned has the fetched price, no PE, the
\* default beta and the warning of the failure
MetricsFailureIsNonFatal(t) ==
    CallFailed(calc[t].fetched.metrics) =>
        /\ Requested(t, "financials")
        /\ calc[t].promise.state # "rejected"
        /\ StockDataReturned(t) =>
              /\ calc[t].sd.price = ParseFloat(calc[t].fetched.quote.body.c)
              /\ calc[t].sd.pe = Null
              /\ calc[t].sd.beta = Num(1)
              /\ SnapshotWarned(t,
                    "Could not fetch metrics; some data may be unavailable")
              /\ \E i \in 1..Len(calc[t].sd.warnings) :
                    calc[t].sd.warnings[i] = BetaDefaultWarning

\* after a failed financials call: the snapshot is returned with the warning
\* of the failure
FinancialsFailureIsNonFatal(t) ==
    CallFailed(calc[t].fetched.financials) =>
        /\ StockDataReturned(t)
        /\ calc[t].promise.state # "rejected"
        /\ SnapshotWarned(t, "Could not fetch financials")
        /\ ~SnapshotWarned(t,
              "Actual EPS derived from reported net income (not per share basis).")

Qualifies(e) ==
    /\ e.date.t = "str" /\ e.date.s # ""
    /\ e.eps_estimate_average.t = "str"
    /\ IsFinite(ParseFloat(e.eps_estimate_average))
    /\ GtZero(ParseFloat(e.eps_estimate_average))

\* the estimates call of t was answered with a list of records
EstimatesListed(t) ==
    /\ calc[t].fetched.estimates.kind # "none"
    /\ ~EstimatesFailed(calc[t].fetched.estimates)

\* the warning of the forward estimate, when the result has one
EstimateWarnings(t) ==
    {i \in 1..Len(calc[t].result.warnings) :
        calc[t].result.warnings[i][1] = "Estimated EPS from Alpha Vantage for period"}

\* C22: the forward estimate is the first record of the list, in list order,
\* that has a date and a finite positive average: the result's estimatedEps is
\* its average and the warning names its date; every record before it lacks
\* a date or has a non-positive average; when no record qualifies the result
\* has no estimatedEps and no estimate warning.
C22_FirstQualifyingEstimate ==
    \A t \in Tasks :
        EstimatesListed(t) =>
            LET es == calc[t].fetched.estimates.body.estimates
                r == calc[t].result
                Q == {i \in 1..Len(es) : Qualifies(es[i])}
            IN  /\ HasReturned(t)
                /\ Q = {} => (r.estimatedEps = Null /\ EstimateWarnings(t) = {})
                /\ Q # {} =>
                      \E k \in Q :
                          /\ \A j \in 1..(k - 1) : ~Qualifies(es[j])
                          /\ r.estimatedEps = ParseFloat(es[k].eps_estimate_average)
                          /\ \A i \in EstimateWarnings(t) :
                                r.warnings[i] =
                                    <<"Estimated EPS from Alpha Vantage for period",
                                      es[k].date.s>>
                          /\ Cardinality(EstimateWarnings(t)) = 1

\* the estimate was taken from the second record: the first was skipped and
\* a later qualifying record with another average was not preferred
C22_Witness ==
    \E t \in Tasks :
        /\ EstimatesListed(t) /\ HasReturned(t)
        /\ LET es == calc[t].fetched.estimates.body.estimates
           IN  /\ Len(es) = 2
               /\ ~Qualifies(es[1])
               /\ Qualifies(es[2])
               /\ calc[t].result.estimatedEps = Num(8)

\* two qualifying records with different averages: the first one was taken
C22_FirstOfTwo ==
    \E t \in Tasks :
        /\ EstimatesListed(t) /\ HasReturned(t)
        /\ LET es == calc[t].fetched.estimates.body.estimates
           IN  /\ Len(es) = 2
               /\ Qualifies(es[1]) /\ Qualifies(es[2])
               /\ es[1].eps_estimate_average = JStr("6")
               /\ es[2].eps_estimate_average = JStr("8")
               /\ calc[t].result.estimatedEps = Num(6)

(***************************************************************************)
(* Properties of the order of the external calls.                          *)
(***************************************************************************)
\* the place of an endpoint in [quote, metrics, financials, estimates]
Rank(endpoint) ==
    CASE endpoint = "quote" -> 1
      [] endpoint = "metrics" -> 2
      [] endpoint = "financials" -> 3
      [] endpoint = "estimates" -> 4

\* the answer the call received from an endpoint
Fetched(t, endpoint) ==
    CASE endpoint = "quote" -> calc[t].fetched.quote
      [] endpoint = "metrics" -> calc[t].fetched.metrics
      [] endpoint = "financials" -> calc[t].fetched.financials
      [] endpoint = "estimates" -> calc[t].fetched.estimates

Endpoints == {"quote", "metrics", "financials", "estimates"}

\* C23: the calls of one valuation are a subsequence of [quote, metrics,
\* financials, estimates] that starts with the quote; no endpoint is requested
\* twice; a call is issued only after every earlier one was answered, and an
\* endpoint that was not requested is never answered; when the quote call
\* fails or gives a price that is not finite and positive, the quote is the
\* only call.
C23_CallsInOrderAtMostOnce ==
    \A t \in Tasks :
        LET calls == calc[t].calls
            n == Len(calls)
        IN  /\ calc[t].pc # "idle" => (n > 0 /\ calls[1] = "quote")
            /\ \A i \in 1..n : calls[i] \in Endpoints
            /\ \A i, j \in 1..n : i < j => Rank(calls[i]) < Rank(calls[j])
            /\ \A i \in 1..(n - 1) : Fetched(t, calls[i]).kind # "none"
            /\ \A e \in Endpoints :
                  Fetched(t, e).kind # "none" => Requested(t, e)
            /\ (n > 0 /\ calc[t].pc # "done") =>
                  (calc[t].pc = calls[n] /\ Fetched(t, calls[n]).kind = "none")
            /\ calc[t].pc = "done" => (n > 0 /\ Fetched(t, calls[n]).kind # "none")
            /\ QuoteFailed(t) => (calls = <<"quote">> /\ calc[t].pc = "done")

\* a valuation that made all four calls, the metrics call having failed
C23_Witness ==
    \E t \in Tasks :
        /\ calc[t].pc = "done"
        /\ calc[t].calls = <<"quote", "metrics", "financials", "estimates">>
        /\ CallFailed(calc[t].fetched.metrics)

\* a valuation stopped at a quote whose price is not positive
C23_StoppedAtQuote ==
    \E t \in Tasks :
        /\ calc[t].pc = "done"
        /\ calc[t].fetched.quote.kind = "ok"
        /\ QuoteFailed(t)
        /\ calc[t].calls = <<"quote">>

\* C24: once getStockData has ended, the estimates call has been issued if
\* and only if getStockData returned a snapshot and the call has a secondary
\* key; a valuation without a secondary key never issues it and returns with
\* estimatedEps absent, hasForwardEps = FALSE, valuationPossible = FALSE and
\* no fairValue.
C24_EstimatesNeedSecondaryKey ==
    \A t \in Tasks :
        /\ calc[t].pc \in {"estimates", "done"} =>
              (Requested(t, "estimates") <=>
                  (StockDataReturned(t) /\ calc[t].params.hasAlphaKey))
        /\ calc[t].pc \in {"quote", "metrics", "financials"} =>
              ~Requested(t, "estimates")
        /\ (calc[t].pc # "idle" /\ ~calc[t].params.hasAlphaKey) =>
              /\ ~Requested(t, "estimates")
              /\ calc[t].fetched.estimates.kind = "none"
              /\ calc[t].result.estimatedEps = Null
              /\ ~calc[t].result.hasForwardEps
              /\ ~calc[t].result.valuationPossible
              /\ calc[t].result.fairValue = Null
              /\ calc[t].pc = "done" =>
                    (HasReturned(t) /\ (~QuoteFailed(t) =>
                        Last(calc[t].result.warnings) = MissingEpsWarning))

\* a valuation without a secondary key that obtained price, PE and trailing
\* EPS and returned at the EPS gate
C24_Witness ==
    \E t \in Tasks :
        /\ HasReturned(t) /\ ~QuoteFailed(t)
        /\ ~calc[t].params.hasAlphaKey
        /\ IsFinite(calc[t].result.actualEps)
        /\ IsFinite(calc[t].sd.pe)
        /\ ~calc[t].result.valuationPossible

\* a valuation with a secondary key whose estimates call was issued after a
\* failed metrics call
C24_IssuedAfterSnapshot ==
    \E t \in Tasks :
        /\ calc[t].params.hasAlphaKey
        /\ calc[t].pc = "estimates"
        /\ CallFailed(calc[t].fetched.metrics)

(***************************************************************************)
(* Properties of a trailing EPS of zero.                                   *)
(***************************************************************************)
CannotCalculatePeWarning == <<"Cannot calculate PE; price or EPS missing.">>
NonPositivePegWarning ==
    <<"PEG calculation resulted in non-positive value; valuation not possible.">>

\* C25: a returned result whose actualEps is 0 has valuationPossible = FALSE
\* and no fairValue.  With a forward estimate the growth rate is +Infinity;
\* then, without a PE from getStockData, no PE can be derived and the result
\* stops at the PE step, and with a finite PE the stock PEG is 0 and the
\* result stops at the PEG gate.
C25_ZeroEpsNeverValued ==
    \A t \in Tasks :
        (HasReturned(t) /\ calc[t].result.actualEps = Num(0)) =>
            LET r == calc[t].result
            IN  /\ ~r.valuationPossible
                /\ r.fairValue = Null
                /\ ~IsFinite(r.estimatedEps) => Last(r.warnings) = MissingEpsWarning
                /\ IsFinite(r.estimatedEps) =>
                      /\ r.growthRate = PosInf
                      /\ calc[t].sd.pe = Null =>
                            /\ r.stockPe = Null
                            /\ Last(r.warnings) = CannotCalculatePeWarning
                      /\ IsFinite(calc[t].sd.pe) =>
                            /\ r.stockPe = calc[t].sd.pe
                            /\ r.stockPeg = Num(0)
                            /\ Last(r.warnings) = NonPositivePegWarning

\* a result with actualEps 0, a forward estimate and a PE of the provider:
\* it passed the growth/PE gate and stopped at the PEG gate
C25_Witness ==
    \E t \in Tasks :
        /\ HasReturned(t)
        /\ calc[t].result.actualEps = Num(0)
        /\ IsFinite(calc[t].result.estimatedEps)
        /\ IsFinite(calc[t].sd.pe)
        /\ calc[t].result.stockPeg = Num(0)

\* a result with actualEps 0, a forward estimate and no PE of the provider
C25_ZeroEpsNoPe ==
    \E t \in Tasks :
        /\ HasReturned(t)
        /\ calc[t].result.actualEps = Num(0)
        /\ IsFinite(calc[t].result.estimatedEps)
        /\ calc[t].sd.pe = Null

====
